---- MODULE Spec2Model ----
(***************************************************************************)
(* Model of the random formula generators of bench/base.py:                *)
(*   _create_random_formula (lines 16-38) and _create_random_dnf (40-58).  *)
(* Both seed and draw from the process-wide generator of Python's random   *)
(* module.  That generator is modelled as a key (the last seed given to    *)
(* random.seed) and a position in the word sequence that key determines;   *)
(* the word sequences are materialised on first use and replayed after.    *)
(* Every step of a call that touches the generator is one action, so that  *)
(* calls on two threads interleave between draws.                          *)
(***************************************************************************)
EXTENDS Integers, Sequences, FiniteSets, TLC

\* ------------------------------------------------------------ bounds
MaxSize == 4
MaxInputs == 2
MaxVars == 2
MaxExternal == 1
MaxConcSize == 2
MaxConcVars == 1

\* ------------------------------------------------- program constants
DefaultSeed == 1521162654
DefaultProb == 50
ProbRange == 100
Unseeded == 0

Threads == {1, 2}
Seeds == {DefaultSeed, DefaultSeed + 1}
Keys == Seeds \cup {Unseeded}
\* Generator outputs sampled: every index of a sequence of up to four
\* elements is hit (99 % 4 = 3), and both ends of range(100).
RawWords == {0, 1, 2, 99}
Probs == {0, 2, DefaultProb, ProbRange}
VarNames == <<"x0", "x1", "x2", "x3">>
\* Operator lists handed to the formula generator: the one of test_rand,
\* one without any arity-1 operator, one with arities outside {1, 2}.
OpLists ==
  << << [name |-> "And", arity |-> 2], [name |-> "Or", arity |-> 2],
        [name |-> "Xor", arity |-> 2], [name |-> "Not", arity |-> 1] >>,
     << [name |-> "And", arity |-> 2], [name |-> "Or", arity |-> 2] >>,
     << [name |-> "Not", arity |-> 1], [name |-> "And", arity |-> 2],
        [name |-> "Ite", arity |-> 3], [name |-> "True", arity |-> 0] >> >>

VARIABLES rng, stream, pc, args, cur, stack, idx, clauses, result, err,
          log, first, ext

vars == <<rng, stream, pc, args, cur, stack, idx, clauses, result, err,
          log, first, ext>>

\* ------------------------------------------------------ expressions
Leaf(name) == [op |-> name, kids |-> <<>>]
Node(op, kids) == [op |-> op, kids |-> kids]
NoResult == Leaf("none")

RECURSIVE NodeCount(_)
NodeCount(t) ==
  IF t.kids = <<>> THEN 1
  ELSE IF Len(t.kids) = 1 THEN 1 + NodeCount(t.kids[1])
  ELSE 1 + NodeCount(t.kids[1]) + NodeCount(t.kids[2])

RECURSIVE Pow2(_)
Pow2(n) == IF n = 0 THEN 1 ELSE 2 * Pow2(n - 1)

\* ------------------------------------------------------- arguments
Inputs(n) == [i \in 1..n |-> Leaf(VarNames[i])]
Ops(a) == OpLists[a.ops]
FormulaArgs ==
  [kind : {"formula"}, inputs : 0..MaxInputs, size : 0..MaxSize,
   ops : 1..Len(OpLists), seed : Seeds, clause_probability : {DefaultProb}]
DnfArgs ==
  [kind : {"dnf"}, inputs : 0..MaxVars, size : {0}, ops : {1},
   seed : Seeds, clause_probability : Probs]
NoArgs ==
  [kind |-> "none", inputs |-> 0, size |-> 0, ops |-> 1,
   seed |-> Unseeded, clause_probability |-> 0]
NoCall == [args |-> NoArgs, pc |-> "idle", result |-> NoResult, err |-> "none"]

\* ------------------------------------------------ the random module
Range(n) == [i \in 1..n |-> i - 1]
NextWords ==
  IF rng.pos < Len(stream[rng.key])
  THEN {stream[rng.key][rng.pos + 1]}
  ELSE RawWords
Advance(w) ==
  /\ rng' = [rng EXCEPT !.pos = @ + 1]
  /\ stream' = IF rng.pos < Len(stream[rng.key])
               THEN stream
               ELSE [stream EXCEPT ![rng.key] = Append(@, w)]
\* random.choice(seq): the element the generator's next word w selects.
choice(seq, w) == seq[(w % Len(seq)) + 1]
\* A call that leaves the generator where it stands instead of seeding it.
seedKeep(a) == rng
\* random.seed(a): the generator restarts the word sequence of a.
seed(a) == [key |-> a, pos |-> 0]

\* ---------------------------------------------------------- create
Frame(o, size) ==
  [op |-> o.name, arity |-> o.arity, size |-> size, szl |-> 0, szr |-> 0,
   kids |-> <<>>]
\* The position of the running create call in the tree of calls (operand
\* numbers from the root), and the record of the calls made so far: where,
\* with which size, and what the call drew ("none": it raised before drawing).
CurPath(stk) == [i \in 1..Len(stk) |-> Len(stk[i].kids) + 1]
Logged(t, o) ==
  [log EXCEPT ![t] =
     Append(@, [path |-> CurPath(stack[t]), size |-> cur[t],
                op |-> o.name, arity |-> o.arity])]
NoOp == [name |-> "none", arity |-> 0]
LeafOp(v) == [name |-> v.op, arity |-> 0]

\* The list of operators without the filter on the arity.
UnaryOpsAll(ops) == ops
\* [op for op, n in ops if n == 1]
UnaryOps(ops) == SelectSeq(ops, LAMBDA o : o.arity = 1)
\* The operator's own node not taken off the size.
RemainingSame(size) == size
\* size -= 1
Remaining(size) == size - 1
\* Only the first of the two assertions.
ArityOkLax(o) == o.arity <= 2
\* assert arity <= 2 ... if arity == 1 ... else: assert arity == 2
ArityOk(o) == o.arity <= 2 /\ (o.arity = 1 \/ o.arity = 2)

\* A finished subtree v is handed to the frames waiting for it: a frame with
\* an operand still to come starts that operand's call, a complete one
\* applies its operator and hands the result further down.
RECURSIVE Unwind(_, _)
Unwind(stk, v) ==
  IF stk = <<>>
  THEN [stack |-> <<>>, cur |-> 0, result |-> v, done |-> TRUE]
  ELSE LET f == stk[Len(stk)]
           kids == Append(f.kids, v)
       IN IF Len(kids) < f.arity
          THEN [stack |-> [stk EXCEPT ![Len(stk)].kids = kids],
                cur |-> f.szr, result |-> NoResult, done |-> FALSE]
          ELSE Unwind(SubSeq(stk, 1, Len(stk) - 1), Node(f.op, kids))

Return(t, v) ==
  LET u == Unwind(stack[t], v)
  IN /\ stack' = [stack EXCEPT ![t] = u.stack]
     /\ cur' = [cur EXCEPT ![t] = u.cur]
     /\ result' = [result EXCEPT ![t] = u.result]
     /\ pc' = [pc EXCEPT ![t] = IF u.done THEN "done" ELSE "create"]
     /\ err' = err

\* An exception leaves every pending create call; nothing is returned.
Raise(t, e) ==
  /\ pc' = [pc EXCEPT ![t] = "error"]
  /\ err' = [err EXCEPT ![t] = e]
  /\ stack' = [stack EXCEPT ![t] = <<>>]
  /\ cur' = [cur EXCEPT ![t] = 0]
  /\ result' = result

\* random.seed(a=seed, version=2), then assert size > 0 (formula) or the
\* empty clause list (dnf).
Seed(t) ==
  /\ pc[t] = "seed"
  /\ rng' = seed(args[t].seed)
  /\ IF args[t].kind = "formula"
     THEN /\ IF args[t].size > 0
             THEN /\ pc' = [pc EXCEPT ![t] = "create"]
                  /\ cur' = [cur EXCEPT ![t] = args[t].size]
                  /\ err' = err
             ELSE /\ pc' = [pc EXCEPT ![t] = "error"]
                  /\ err' = [err EXCEPT ![t] = "AssertionError"]
                  /\ cur' = cur
          /\ UNCHANGED <<idx, clauses>>
     ELSE /\ pc' = [pc EXCEPT ![t] = "dnf"]
          /\ idx' = [idx EXCEPT ![t] = 0]
          /\ clauses' = [clauses EXCEPT ![t] = <<>>]
          /\ UNCHANGED <<cur, err>>
  /\ UNCHANGED <<stream, args, stack, result, log, first, ext>>

\* assert size > 0
CreateAssert(t) ==
  /\ log' = Logged(t, NoOp)
  /\ Raise(t, "AssertionError")
  /\ UNCHANGED <<rng, stream>>

\* size == 1: return random.choice(inputs)
CreateLeaf(t) ==
  IF args[t].inputs = 0
  THEN /\ log' = Logged(t, NoOp)
       /\ Raise(t, "IndexError")
       /\ UNCHANGED <<rng, stream>>
  ELSE \E w \in NextWords :
         LET v == choice(Inputs(args[t].inputs), w)
         IN /\ Advance(w)
            /\ log' = Logged(t, LeafOp(v))
            /\ Return(t, v)

\* size == 2: op = random.choice([op for op, n in ops if n == 1]);
\* return op(create(1))
CreateUnary(t) ==
  IF UnaryOps(Ops(args[t])) = <<>>
  THEN /\ log' = Logged(t, NoOp)
       /\ Raise(t, "IndexError")
       /\ UNCHANGED <<rng, stream>>
  ELSE \E w \in NextWords :
         LET o == choice(UnaryOps(Ops(args[t])), w)
         IN /\ Advance(w)
            /\ log' = Logged(t, o)
            /\ stack' = [stack EXCEPT ![t] = Append(@, Frame(o, cur[t]))]
            /\ cur' = [cur EXCEPT ![t] = 1]
            /\ UNCHANGED <<pc, err, result>>

\* size > 2: size -= 1; op, arity = random.choice(ops); assert arity <= 2;
\* arity 1 recurses with size, arity 2 goes on to draw the split.
CreateGeneral(t) ==
  \E w \in NextWords :
    LET o == choice(Ops(args[t]), w)
    IN /\ Advance(w)
       /\ log' = Logged(t, o)
       /\ IF ArityOk(o)
          THEN /\ stack' = [stack EXCEPT ![t] = Append(@, Frame(o, cur[t]))]
               /\ cur' = [cur EXCEPT ![t] = Remaining(@)]
               /\ pc' = [pc EXCEPT ![t] =
                           IF o.arity = 1 THEN "create" ELSE "split"]
               /\ UNCHANGED <<err, result>>
          ELSE Raise(t, "AssertionError")

\* One call of create, up to its first draw.
Create(t) ==
  /\ pc[t] = "create"
  /\ IF cur[t] <= 0 THEN CreateAssert(t)
     ELSE IF cur[t] = 1 THEN CreateLeaf(t)
     ELSE IF cur[t] = 2 THEN CreateUnary(t)
     ELSE CreateGeneral(t)
  /\ UNCHANGED <<args, idx, clauses, first, ext>>

\* The split drawn from range(size) instead of range(size - 1).
SplitSizesWide(size, w) ==
  LET szl == choice(Range(size), w) + 1
  IN [szl |-> szl, szr |-> size - szl]
\* The right size taken from the size before the operator's node came off.
SplitSizesLong(size, w) ==
  LET szl == choice(Range(size - 1), w) + 1
  IN [szl |-> szl, szr |-> size + 1 - szl]
\* szl = random.choice(range(size - 1)) + 1; szr = size - szl;
\* op(create(szl), create(szr)): the left operand's call runs first.
SplitSizes(size, w) ==
  LET szl == choice(Range(size - 1), w) + 1
  IN [szl |-> szl, szr |-> size - szl]
Split(t) ==
  /\ pc[t] = "split"
  /\ \E w \in NextWords :
       LET s == SplitSizes(cur[t], w)
           top == Len(stack[t])
       IN /\ Advance(w)
          /\ stack' = [stack EXCEPT ![t][top].szl = s.szl,
                                    ![t][top].szr = s.szr]
          /\ cur' = [cur EXCEPT ![t] = s.szl]
          /\ pc' = [pc EXCEPT ![t] = "create"]
  /\ UNCHANGED <<args, idx, clauses, result, err, log, first, ext>>

\* ------------------------------------------------------------- dnf
\* The tuples enumerated with the first position varying fastest.
ValsLsb(n, i) == [k \in 1..n |-> (i \div Pow2(k - 1)) % 2]
\* itertools.product(*[range(2)] * n): the i-th tuple (from 0), the last
\* position varying fastest.
Vals(n, i) == [k \in 1..n |-> (i \div Pow2(n - k)) % 2]
Literal(inp, pos) == IF pos = 1 THEN inp ELSE Node("Not", <<inp>>)
Clause(inputs, vals) ==
  Node("And", [k \in 1..Len(inputs) |-> Literal(inputs[k], vals[k])])
\* The comparison off by one, and the comparison turned round.
KeepLe(draw, clause_probability) == draw <= clause_probability
KeepInverted(draw, clause_probability) == draw >= clause_probability
\* random.choice(range(100)) < clause_probability
Keep(draw, clause_probability) == draw < clause_probability

\* One iteration of the loop over the assignments; the last one returns
\* Or(clauses).
DnfStep(t) ==
  /\ pc[t] = "dnf"
  /\ \E w \in NextWords :
       LET n == args[t].inputs
           kept == IF Keep(choice(Range(ProbRange), w),
                           args[t].clause_probability)
                   THEN Append(clauses[t], Clause(Inputs(n), Vals(n, idx[t])))
                   ELSE clauses[t]
           last == idx[t] + 1 = Pow2(n)
       IN /\ Advance(w)
          /\ clauses' = [clauses EXCEPT ![t] = kept]
          /\ idx' = [idx EXCEPT ![t] = @ + 1]
          /\ pc' = [pc EXCEPT ![t] = IF last THEN "done" ELSE "dnf"]
          /\ result' = [result EXCEPT ![t] =
                          IF last THEN Node("Or", kept) ELSE @]
  /\ UNCHANGED <<args, cur, stack, err, log, first, ext>>

\* ---------------------------------------------------------- callers
Quiet(t) == pc[t] \in {"idle", "done", "error"}
Fresh(t, a) ==
  /\ args' = [args EXCEPT ![t] = a]
  /\ pc' = [pc EXCEPT ![t] = "seed"]
  /\ cur' = [cur EXCEPT ![t] = 0]
  /\ stack' = [stack EXCEPT ![t] = <<>>]
  /\ idx' = [idx EXCEPT ![t] = 0]
  /\ clauses' = [clauses EXCEPT ![t] = <<>>]
  /\ result' = [result EXCEPT ![t] = NoResult]
  /\ err' = [err EXCEPT ![t] = "none"]
  /\ log' = [log EXCEPT ![t] = <<>>]

\* The first call of a thread.
Call(t, a) ==
  /\ pc[t] = "idle"
  /\ Fresh(t, a)
  /\ UNCHANGED <<rng, stream, first, ext>>

\* Thread 1 calls the same generator again with the same inputs and seed
\* (a dnf call possibly with another clause_probability); what the first
\* call returned is kept for comparison.
Recall(p) ==
  /\ pc[1] \in {"done", "error"}
  /\ first = NoCall
  /\ args[1].kind = "formula" => p = args[1].clause_probability
  /\ first' = [args |-> args[1], pc |-> pc[1], result |-> result[1],
               err |-> err[1]]
  /\ Fresh(1, [args[1] EXCEPT !.clause_probability = p])
  /\ UNCHANGED <<rng, stream, ext>>

\* Some other user of the random module draws a number between calls.
ExternalDraw ==
  /\ \A t \in Threads : Quiet(t)
  /\ ext < MaxExternal
  /\ ext' = ext + 1
  /\ \E w \in NextWords : Advance(w)
  /\ UNCHANGED <<pc, args, cur, stack, idx, clauses, result, err, log, first>>

Step(t) ==
  \/ Seed(t)
  \/ Create(t)
  \/ Split(t)
  \/ DnfStep(t)

Init ==
  /\ rng = [key |-> Unseeded, pos |-> 0]
  /\ stream = [k \in Keys |-> <<>>]
  /\ pc = [t \in Threads |-> "idle"]
  /\ args = [t \in Threads |-> NoArgs]
  /\ cur = [t \in Threads |-> 0]
  /\ stack = [t \in Threads |-> <<>>]
  /\ idx = [t \in Threads |-> 0]
  /\ clauses = [t \in Threads |-> <<>>]
  /\ result = [t \in Threads |-> NoResult]
  /\ err = [t \in Threads |-> "none"]
  /\ log = [t \in Threads |-> <<>>]
  /\ first = NoCall
  /\ ext = 0

\* Some other user of the random module reseeds it between calls (as any
\* other generator call does first).
ExternalSeed(s) ==
  /\ \A t \in Threads : Quiet(t)
  /\ ext < MaxExternal
  /\ ext' = ext + 1
  /\ rng' = seed(s)
  /\ UNCHANGED <<stream, pc, args, cur, stack, idx, clauses, result, err, log,
                 first>>

\* Calls one after the other on one thread, with other uses of the random
\* module before and between them.
Next ==
  \/ \E a \in FormulaArgs \cup DnfArgs : Call(1, a)
  \/ \E p \in Probs : Recall(p)
  \/ Step(1)
  \/ ExternalDraw
  \/ \E s \in Seeds : ExternalSeed(s)

Spec == Init /\ [][Next]_vars

\* Thread 1 has run its call alone once and runs it again, while thread 2
\* runs a call of its own with another seed; the steps interleave freely.
\* The calls are small (size <= MaxConcSize = 2, so create never draws a
\* split), which keeps the interleavings enumerable.
ConcArgs(seeds) ==
  {a \in FormulaArgs :
     /\ a.size \in 1..MaxConcSize
     /\ a.inputs = MaxInputs
     /\ a.ops = 1
     /\ a.seed \in seeds}
  \cup {a \in DnfArgs : a.inputs <= MaxConcVars /\ a.seed \in seeds}
NextConc ==
  \/ \E a \in ConcArgs({DefaultSeed}) : Call(1, a)
  \/ Recall(args[1].clause_probability)
  \/ \E a \in ConcArgs(Seeds \ {DefaultSeed}) : first # NoCall /\ Call(2, a)
  \/ \E t \in Threads : Seed(t) \/ Create(t) \/ DnfStep(t)

SpecConc == Init /\ [][NextConc]_vars

\* =============================================================== claims
HasUnary(a) == \E i \in DOMAIN Ops(a) : Ops(a)[i].arity = 1
HasBadArity(a) == \E i \in DOMAIN Ops(a) : Ops(a)[i].arity \notin {1, 2}
IsFormula(t) == args[t].kind = "formula"
IsDnf(t) == args[t].kind = "dnf"
\* The arguments the contract of the formula generator admits.
ValidFormula(t) ==
  /\ IsFormula(t)
  /\ args[t].size >= 1
  /\ args[t].inputs >= 1
  /\ HasUnary(args[t])
  /\ ~HasBadArity(args[t])
Front(p) == SubSeq(p, 1, Len(p) - 1)
IsLeafOf(t, v) == \E i \in 1..args[t].inputs : v = Leaf(VarNames[i])

\* C1: for every size >= 1, non-empty leaf sequence, operator list with
\* arities in {1,2} and at least one arity-1 operator, and every sequence of
\* draws, the returned tree has exactly `size` nodes (size 1: a single leaf;
\* size 2: one unary application over a leaf).
ExactSize ==
  \A t \in Threads :
    (pc[t] = "done" /\ ValidFormula(t)) =>
      /\ NodeCount(result[t]) = args[t].size
      /\ args[t].size = 1 => IsLeafOf(t, result[t])
      /\ args[t].size = 2 =>
           /\ Len(result[t].kids) = 1
           /\ \E i \in DOMAIN Ops(args[t]) :
                /\ Ops(args[t])[i].arity = 1
                /\ Ops(args[t])[i].name = result[t].op
           /\ IsLeafOf(t, result[t].kids[1])
ExactSizeWitness ==
  /\ pc[1] = "done"
  /\ ValidFormula(1)
  /\ args[1].size = MaxSize
  /\ Len(result[1].kids) = 2

\* C10: with valid arguments the formula generator raises no error and
\* terminates: a step is always possible until it returns, it makes at most
\* `size` create calls, and every recursive create call has a size >= 1 that
\* is strictly smaller than its parent's.
TerminatesWithoutError ==
  \A t \in Threads :
    ValidFormula(t) =>
      /\ pc[t] # "error"
      /\ pc[t] \in {"seed", "create", "split"} => ENABLED Step(t)
      /\ Len(log[t]) <= args[t].size
      /\ \A i \in DOMAIN log[t] :
           /\ log[t][i].size >= 1
           /\ log[t][i].path # <<>> =>
                \E j \in 1..(i - 1) :
                  /\ log[t][j].path = Front(log[t][i].path)
                  /\ log[t][j].size > log[t][i].size
TerminatesWitness ==
  /\ pc[1] = "done"
  /\ ValidFormula(1)
  /\ args[1].size = MaxSize
  /\ Len(log[1]) = MaxSize
  /\ \E i \in DOMAIN log[1] : Len(log[1][i].path) >= 2

\* C5: when a create call (top-level or recursive) reaches size 2 and the
\* operator list has no arity-1 operator, generation fails with an error and
\* no expression is returned; in particular a call with size 2 and binary
\* operators only never returns.
NoUnaryFails ==
  \A t \in Threads :
    (IsFormula(t) /\ ~HasUnary(args[t])) =>
      /\ args[t].size = 2 => pc[t] # "done"
      /\ (\E i \in DOMAIN log[t] : log[t][i].size = 2) =>
           /\ pc[t] = "error"
           /\ err[t] = "IndexError"
           /\ result[t] = NoResult
           /\ stack[t] = <<>>
NoUnaryFailsWitness ==
  /\ pc[1] = "error"
  /\ err[1] = "IndexError"
  /\ IsFormula(1)
  /\ ~HasUnary(args[1])
  /\ args[1].inputs >= 1
  /\ args[1].size = MaxSize
  /\ Len(log[1]) >= 3

\* C6 as stated: every call whose operator list holds a descriptor with an
\* arity outside {1,2} fails, for every size and every seed.
BadArityAlwaysFails ==
  \A t \in Threads :
    (IsFormula(t) /\ HasBadArity(args[t])) => pc[t] # "done"
\* C6 as amended: a descriptor with an arity outside {1,2} is detected when a
\* create call with size > 2 draws it, and only then: that call fails with an
\* assertion error at once and returns nothing; a call that never draws such
\* a descriptor is not failed by it (size 1, and size 2 with an arity-1
\* operator, never are).
BadArityFailsWhenDrawn ==
  \A t \in Threads :
    IsFormula(t) =>
      /\ \A i \in DOMAIN log[t] :
           (log[t][i].size > 2 /\ log[t][i].arity \notin {1, 2}) =>
             /\ pc[t] = "error"
             /\ err[t] = "AssertionError"
             /\ result[t] = NoResult
             /\ i = Len(log[t])
      /\ (pc[t] = "error" /\ err[t] = "AssertionError" /\ args[t].size > 0) =>
           /\ log[t] # <<>>
           /\ log[t][Len(log[t])].size > 2
           /\ log[t][Len(log[t])].arity \notin {1, 2}
      /\ (HasBadArity(args[t]) /\ args[t].inputs >= 1 /\ args[t].size = 1) =>
           pc[t] # "error"
      /\ (HasBadArity(args[t]) /\ args[t].inputs >= 1 /\ args[t].size = 2
            /\ HasUnary(args[t])) => pc[t] # "error"
BadArityWitness ==
  /\ pc[1] = "error"
  /\ err[1] = "AssertionError"
  /\ HasBadArity(args[1])
  /\ Len(log[1]) >= 2
  /\ log[1][Len(log[1])].arity = 3

\* C7: in every create call with size > 2 that picks an arity-2 operator,
\* szl lies in [1, size-2], szr = (size-1) - szl is >= 1, every value of
\* [1, size-2] can be drawn for szl, and the left operand's subtree is
\* generated completely before the right operand's call starts (the create
\* calls are made in pre-order, left first).
SplitDrawn(t, i) ==
  stack[t][i].arity = 2 /\ ~(i = Len(stack[t]) /\ pc[t] = "split")
ChildSize(t, i) ==
  IF i = Len(stack[t]) THEN cur[t] ELSE stack[t][i + 1].size
PathBefore(p, q) ==
  \/ Len(p) < Len(q) /\ SubSeq(q, 1, Len(p)) = p
  \/ \E k \in 1..Len(p) :
       /\ k <= Len(q)
       /\ SubSeq(p, 1, k - 1) = SubSeq(q, 1, k - 1)
       /\ p[k] < q[k]
SplitComplete ==
  /\ \A s \in 3..MaxSize :
       {SplitSizes(s - 1, w).szl : w \in RawWords} = 1..(s - 2)
  /\ \A t \in Threads :
       /\ \A i \in DOMAIN stack[t] :
            SplitDrawn(t, i) =>
              LET f == stack[t][i]
              IN /\ f.size > 2
                 /\ f.szl \in 1..(f.size - 2)
                 /\ f.szr >= 1
                 /\ f.szl + f.szr = f.size - 1
                 /\ Len(f.kids) = 0 => ChildSize(t, i) = f.szl
                 /\ Len(f.kids) = 1 =>
                      /\ NodeCount(f.kids[1]) = f.szl
                      /\ ChildSize(t, i) = f.szr
       /\ \A i, j \in DOMAIN log[t] :
            i < j => PathBefore(log[t][i].path, log[t][j].path)
SplitWitness ==
  \E i \in DOMAIN stack[1] :
    /\ SplitDrawn(1, i)
    /\ stack[1][i].size = MaxSize
    /\ stack[1][i].szl = MaxSize - 2
    /\ Len(stack[1][i].kids) = 1
    /\ pc[1] = "create"

\* C2: two calls of the formula generator, one after the other, with the
\* same (inputs, size, operators, seed) end the same way and return the same
\* tree, whatever used the random module before each of them.
Deterministic ==
  (/\ first # NoCall
   /\ IsFormula(1)
   /\ pc[1] \in {"done", "error"}
   /\ args[1] = first.args) =>
     /\ pc[1] = first.pc
     /\ err[1] = first.err
     /\ result[1] = first.result
DeterministicWitness ==
  /\ first # NoCall
  /\ IsFormula(1)
  /\ pc[1] = "done"
  /\ args[1] = first.args
  /\ args[1].size = MaxSize
  /\ Len(result[1].kids) = 2
  /\ ext = MaxExternal
  /\ result[1] = first.result

\* C4: with clause_probability = 100 the dnf generator returns a disjunction
\* of exactly 2^n clauses, one per truth assignment, none repeated; with
\* clause_probability = 0 it returns the empty disjunction.
IsClause(t, c) ==
  /\ c.op = "And"
  /\ Len(c.kids) = args[t].inputs
  /\ \A k \in 1..args[t].inputs :
       c.kids[k] \in {Leaf(VarNames[k]), Node("Not", <<Leaf(VarNames[k])>>)}
DnfBoundary ==
  \A t \in Threads :
    (IsDnf(t) /\ pc[t] = "done") =>
      /\ result[t].op = "Or"
      /\ args[t].clause_probability = ProbRange =>
           /\ Len(result[t].kids) = Pow2(args[t].inputs)
           /\ \A i \in DOMAIN result[t].kids : IsClause(t, result[t].kids[i])
           /\ \A i, j \in DOMAIN result[t].kids :
                i # j => result[t].kids[i] # result[t].kids[j]
      /\ args[t].clause_probability = 0 => result[t].kids = <<>>
DnfBoundaryWitness ==
  /\ IsDnf(1)
  /\ pc[1] = "done"
  /\ args[1].inputs = MaxVars
  /\ args[1].clause_probability = ProbRange
  /\ Len(result[1].kids) = Pow2(MaxVars)

\* C8: every clause of the dnf result is a conjunction of exactly n literals,
\* the k-th being input k or its negation; the kept clauses stand in
\* enumeration order, binary counting from all-false to all-true with the
\* first input as the most significant bit.
Bit(c, k) == IF c.kids[k].op = "Not" THEN 0 ELSE 1
RECURSIVE AssignmentNo(_, _)
AssignmentNo(c, k) ==
  IF k = 0 THEN 0 ELSE 2 * AssignmentNo(c, k - 1) + Bit(c, k)
Number(c) == AssignmentNo(c, Len(c.kids))
ClauseOrder ==
  \A t \in Threads :
    (IsDnf(t) /\ pc[t] \in {"dnf", "done"}) =>
      /\ \A i \in DOMAIN clauses[t] :
           /\ IsClause(t, clauses[t][i])
           /\ Number(clauses[t][i]) < idx[t]
           /\ Number(clauses[t][i]) >= i - 1
           /\ args[t].clause_probability = ProbRange =>
                Number(clauses[t][i]) = i - 1
           /\ i > 1 => Number(clauses[t][i - 1]) < Number(clauses[t][i])
      /\ pc[t] = "done" => result[t] = Node("Or", clauses[t])
ClauseOrderWitness ==
  /\ IsDnf(1)
  /\ pc[1] = "done"
  /\ args[1].inputs = MaxVars
  /\ args[1].clause_probability = DefaultProb
  /\ Len(result[1].kids) >= 2
  /\ Len(result[1].kids) < Pow2(MaxVars)
  /\ Number(result[1].kids[1]) > 0

\* C9: the dnf generator draws once per assignment, kept or not (the j-th
\* draw after seeding decides the j-th assignment), so for fixed inputs and
\* seed the clauses kept with p are a subsequence of those kept with any
\* p' >= p.
RECURSIVE IsSubseq(_, _)
IsSubseq(s, u) ==
  IF s = <<>> THEN TRUE
  ELSE IF u = <<>> THEN FALSE
  ELSE IF Head(s) = Head(u) THEN IsSubseq(Tail(s), Tail(u))
  ELSE IsSubseq(s, Tail(u))
DrawOf(t, j) == stream[args[t].seed][j + 1] % ProbRange
DnfMonotone ==
  /\ (IsDnf(1) /\ pc[1] = "dnf") => rng.pos = idx[1]
  /\ (IsDnf(1) /\ pc[1] \in {"dnf", "done"}) =>
       /\ pc[1] = "done" => idx[1] = Pow2(args[1].inputs)
       /\ {Number(clauses[1][i]) : i \in DOMAIN clauses[1]} =
            {j \in 0..(idx[1] - 1) :
               DrawOf(1, j) < args[1].clause_probability}
  /\ (first # NoCall /\ IsDnf(1) /\ pc[1] = "done" /\ first.pc = "done") =>
       /\ first.args.clause_probability <= args[1].clause_probability =>
            IsSubseq(first.result.kids, result[1].kids)
       /\ args[1].clause_probability <= first.args.clause_probability =>
            IsSubseq(result[1].kids, first.result.kids)
DnfMonotoneWitness ==
  /\ first # NoCall
  /\ IsDnf(1)
  /\ pc[1] = "done"
  /\ args[1].inputs = MaxVars
  /\ first.args.clause_probability < args[1].clause_probability
  /\ first.result.kids # <<>>
  /\ Len(first.result.kids) < Len(result[1].kids)
  /\ Len(result[1].kids) < Pow2(MaxVars)

\* C3: each generator call owns a private random stream, so a call whose
\* steps interleave with a concurrent call using another seed returns
\* exactly what it returns when run alone.
PrivateStream ==
  (first # NoCall /\ pc[1] \in {"done", "error"}) =>
     /\ pc[1] = first.pc
     /\ result[1] = first.result

====
